---- MODULE Spec2Model ----
(***************************************************************************)
(* ddesolver: a delay-differential-equation solver built on an adaptive    *)
(* ODE engine (scipy.integrate.ode) and a growing linear interpolant       *)
(* (scipy.interpolate.interp1d).  The model follows src/ddesolver/         *)
(* ddesolver.py: the history variable ddeVar, the integrator wrapper dde   *)
(* and the driver solve_dde.                                               *)
(*                                                                         *)
(* Times and state components are integers, held exactly by the float64   *)
(* arrays of the code.  A value read back from the history is a float64,   *)
(* written [q, err] for the number q + err * 2^-53 with q and err          *)
(* rationals <<num, den>> in lowest terms (den > 0): q is the result of    *)
(* the computation in exact arithmetic, err the rounding error the         *)
(* float64 operations have accumulated.  A q of <<0, 0>> stands for the    *)
(* non-finite result of a division by zero.                                *)
(***************************************************************************)
EXTENDS Integers, Sequences, FiniteSets, TLC

VARIABLES tt, g, func, pc, Y, ode, results, step_index, target, lastRead, calls

vars == <<tt, g, func, pc, Y, ode, results, step_index, target, lastRead, calls>>

(* ------------------------------ bounds --------------------------------- *)

\* longest output-time sequence tt
MaxLen == 3
\* output times are drawn from the grid 0, TimeStep, .., MaxT * TimeStep
MaxT == 2
\* spacing of the time grid on which output times, engine stops and delays lie
TimeStep == 49
\* state components the engine may return are drawn from 0..MaxVal
MaxVal == 1
\* delays the right-hand side may look back by: 0, .., MaxDelay * TimeStep
MaxDelay == 1

(* --------------------------- small helpers ----------------------------- *)

Abs(a) == IF a < 0 THEN -a ELSE a

Min(a, b) == IF a <= b THEN a ELSE b

Max(a, b) == IF a >= b THEN a ELSE b

RECURSIVE GCD(_, _)
GCD(a, b) == IF b = 0 THEN a ELSE GCD(b, a % b)

\* the rational n/d in lowest terms with a positive denominator; d = 0 is
\* the non-finite value
Rat(n, d) ==
    IF d = 0 THEN <<0, 0>>
    ELSE LET k == GCD(Abs(n), Abs(d))
             s == IF d < 0 THEN -1 ELSE 1
         IN  <<s * (n \div k), s * (d \div k)>>

NaN == <<0, 0>>

RatAdd(a, b) ==
    IF a[2] = 0 \/ b[2] = 0 THEN NaN
    ELSE LET k == GCD(a[2], b[2])
         IN  Rat(a[1] * (b[2] \div k) + b[1] * (a[2] \div k),
                 (a[2] \div k) * b[2])

RatMul(a, b) ==
    IF a[2] = 0 \/ b[2] = 0 THEN NaN
    ELSE LET k1 == GCD(Abs(a[1]), b[2])
             k2 == GCD(Abs(b[1]), a[2])
         IN  Rat((a[1] \div k1) * (b[1] \div k2),
                 (a[2] \div k2) * (b[2] \div k1))

(* ------------------------ float64 arithmetic --------------------------- *)

\* significand bits of a float64 (numpy's default dtype, which interp1d
\* converts its samples to)
Precision == 53

RECURSIVE Pow2(_)
Pow2(j) == IF j = 0 THEN 1 ELSE 2 * Pow2(j - 1)

\* 2^j as a rational, for any integer j
Pow2Rat(j) == IF j >= 0 THEN <<Pow2(j), 1>> ELSE <<1, Pow2(0 - j)>>

\* 2^m modulo d, by squaring
RECURSIVE Pow2Mod(_, _)
Pow2Mod(m, d) ==
    IF m = 0 THEN 1 % d
    ELSE LET h == Pow2Mod(m \div 2, d)
             r == (h * h) % d
         IN  IF m % 2 = 1 THEN (2 * r) % d ELSE r

\* the binary exponent of the positive rational n/d: 2^e <= n/d < 2^(e+1)
RECURSIVE Exponent(_, _)
Exponent(n, d) ==
    IF n >= 2 * d THEN 1 + Exponent(n, 2 * d)
    ELSE IF n < d THEN Exponent(2 * n, d) - 1
    ELSE 0

\* the float64 holding the rational q exactly
Exact(q) == [q |-> q, err |-> <<0, 1>>]

\* IEEE 754 rounding of the real number x.q + x.err * 2^-Precision to the
\* nearest float64, ties to the even significand.  With e the binary
\* exponent of x, one unit in the last place is u = 2^(e+1-Precision); x/u
\* is split into the integer part of q/u (of which only the parity pA is
\* needed), its fractional part fA, and the error term err * 2^(-1-e).
\* The distance R from x/u to the integer it rounds to, times u, is added
\* to the error.  A zero q arises only as the exact difference of a float64
\* and a nearby integer, which is a float64.  Overflow and subnormal
\* numbers are out of the range of the values computed here.
Round64(x) ==
    IF x.q[2] = 0 \/ x.q[1] = 0 THEN x
    ELSE LET sgn == IF x.q[1] > 0 THEN 1 ELSE -1
             n   == sgn * x.q[1]
             d   == x.q[2]
             dl  == <<sgn * x.err[1], x.err[2]>>
             e0  == Exponent(n, d)
             e   == IF dl[1] < 0 /\ <<n, d>> = Pow2Rat(e0) THEN e0 - 1 ELSE e0
             m   == Precision - 1 - e
             fA  == Rat((n * Pow2Mod(m, d)) % d, d)
             pA  == ((n * Pow2Mod(m, 2 * d)) % (2 * d)) \div d
             w   == RatAdd(fA, RatMul(dl, Pow2Rat(0 - 1 - e)))
             fw  == w[1] \div w[2]
             gg  == RatAdd(w, <<0 - fw, 1>>)
             odd == (pA + fw) % 2 = 1
             up  == 2 * gg[1] > gg[2] \/ (2 * gg[1] = gg[2] /\ odd)
             R   == IF up THEN RatAdd(<<1, 1>>, <<0 - gg[1], gg[2]>>)
                    ELSE <<0 - gg[1], gg[2]>>
             d2  == RatAdd(dl, RatMul(R, Pow2Rat(e + 1)))
         IN  [q |-> x.q, err |-> <<sgn * d2[1], d2[2]>>]

\* a / b in float64, for integers a and b (a zero b gives a non-finite value)
fl_div(a, b) == Round64(Exact(Rat(a, b)))

\* x * k in float64, for a float64 x and an integer k
fl_mul(x, k) ==
    Round64([q |-> RatMul(x.q, <<k, 1>>), err |-> RatMul(x.err, <<k, 1>>)])

\* x + y in float64, for a float64 x and an integer y
fl_add(x, y) == Round64([q |-> RatAdd(x.q, <<y, 1>>), err |-> x.err])

\* a state vector of integers as the vector of float64 values it holds
AsValue(s) == [k \in 1..Len(s) |-> Exact(Rat(s[k], 1))]

\* the integer state vector a vector of integer-valued float64 denotes
AsState(v) == [k \in 1..Len(v) |-> v[k].q[1]]

(* ----------------------------- generators ------------------------------ *)

\* "ramp": a scalar history (examples/sine.py passes the scalar function sin);
\* "pair": a two-component history (examples/lotka.py header: x = 1+t, y = 2-t)
Generators == {"ramp", "pair"}

generator(gen, t) ==
    IF gen = "ramp" THEN <<1 + t>> ELSE <<1 + t, 2 - t>>

\* number of array axes of the sample array np.array([g(c), g(c)]).T
ndim(gen) == IF gen = "ramp" THEN 1 ELSE 2

(* ------------------- scipy.interpolate.interp1d ------------------------ *)

\* positions of xs in stable ascending order (np.argsort(x, kind="mergesort"))
RECURSIVE argsort(_)
argsort(xs) ==
    IF Len(xs) = 0 THEN <<>>
    ELSE LET n    == Len(xs)
             ind  == argsort(SubSeq(xs, 1, n - 1))
             \* the new last element goes after every element <= it
             keep == {k \in 1..(n - 1) : xs[ind[k]] <= xs[n]}
             pos  == Cardinality(keep)
         IN  SubSeq(ind, 1, pos) \o <<n>> \o SubSeq(ind, pos + 1, n - 1)

\* interp1d(x, y, kind="linear", bounds_error=False, fill_value=fv):
\* the constructor sorts x and reorders y with it (assume_sorted=False)
interp1d(xs, ys, fv, nd) ==
    LET ind == argsort(xs)
    IN  [x    |-> [k \in 1..Len(xs) |-> xs[ind[k]]],
         y    |-> [k \in 1..Len(xs) |-> ys[ind[k]]],
         fill |-> fv,
         ndim |-> nd]

\* np.interp on the sorted nodes: the value at the last node j with
\* x[j] <= t is returned as stored when t = x[j] or j is the last node;
\* elsewhere slope * (t - x[j]) + y[j] in float64 (the differences of the
\* integer-valued nodes are exact)
call_linear_np(ip, t) ==
    LET n == Len(ip.x)
        j == Cardinality({k \in 1..n : ip.x[k] <= t})
    IN  IF j = 0 THEN AsValue(ip.y[1])
        ELSE IF j = n \/ ip.x[j] = t THEN AsValue(ip.y[j])
        ELSE [k \in 1..Len(ip.y[j]) |->
                LET slope == fl_div(ip.y[j + 1][k] - ip.y[j][k],
                                    ip.x[j + 1] - ip.x[j])
                IN  fl_add(fl_mul(slope, t - ip.x[j]), ip.y[j][k])]

\* interp1d._call_linear: hi = searchsorted(x, t) clipped to 1..n-1 (0-based),
\* lo = hi - 1, slope * (t - x_lo) + y_lo with each operation in float64
call_linear(ip, t) ==
    LET n   == Len(ip.x)
        ss  == Cardinality({k \in 1..n : ip.x[k] < t})
        hi0 == Max(1, Min(ss, n - 1))
        lo  == hi0
        hi  == hi0 + 1
    IN  [k \in 1..Len(ip.y[lo]) |->
            LET slope == fl_div(ip.y[hi][k] - ip.y[lo][k], ip.x[hi] - ip.x[lo])
            IN  fl_add(fl_mul(slope, t - ip.x[lo]), ip.y[lo][k])]

\* interp1d.__call__: one-axis float samples are delegated to np.interp,
\* anything else goes through _call_linear; outside [x[0], x[-1]] the
\* fill value replaces the result
interp1d_call(ip, t) ==
    IF t < ip.x[1] \/ t > ip.x[Len(ip.x)] THEN AsValue(ip.fill)
    ELSE IF ip.ndim = 1 THEN call_linear_np(ip, t)
    ELSE call_linear(ip, t)

(* ------------------------------ ddeVar --------------------------------- *)

\* the history variable before solve_dde has constructed it
NoY == [generator |-> "ramp", generator_cutoff_time |-> 0,
        interpolator |-> [x |-> <<>>, y |-> <<>>, fill |-> <<>>, ndim |-> 0]]

\* a seed of the point (cutoff, generator(cutoff)) twice at the cutoff
ddeVar_init_atCutoff(gen, generator_cutoff_time) ==
    [generator             |-> gen,
     generator_cutoff_time |-> generator_cutoff_time,
     interpolator          |->
        interp1d(<<generator_cutoff_time, generator_cutoff_time>>,
                 <<generator(gen, generator_cutoff_time),
                   generator(gen, generator_cutoff_time)>>,
                 generator(gen, generator_cutoff_time),
                 ndim(gen))]

ddeVar_init(gen, generator_cutoff_time) ==
    [generator             |-> gen,
     generator_cutoff_time |-> generator_cutoff_time,
     interpolator          |->
        interp1d(<<generator_cutoff_time - 1, generator_cutoff_time>>,
                 <<generator(gen, generator_cutoff_time),
                   generator(gen, generator_cutoff_time)>>,
                 generator(gen, generator_cutoff_time),
                 ndim(gen))]

\* update that rebuilds the interpolator without refreshing fill_value
update_staleFill(h, t, Ynew) ==
    [h EXCEPT !.interpolator =
        interp1d(Append(h.interpolator.x, t),
                 Append(h.interpolator.y, Ynew),
                 h.interpolator.fill,
                 h.interpolator.ndim)]

update(h, t, Ynew) ==
    [h EXCEPT !.interpolator =
        interp1d(Append(h.interpolator.x, t),
                 Append(h.interpolator.y, Ynew),
                 Ynew,
                 h.interpolator.ndim)]

\* __call__ with the cutoff itself handed to the interpolator
ddeVar_call_strict(h, t) ==
    IF t < h.generator_cutoff_time
    THEN AsValue(generator(h.generator, t))
    ELSE interp1d_call(h.interpolator, t)

ddeVar_call(h, t) ==
    IF t <= h.generator_cutoff_time
    THEN AsValue(generator(h.generator, t))
    ELSE interp1d_call(h.interpolator, t)

(* -------------------------------- dde ---------------------------------- *)

NoOde == [t |-> 0, y |-> <<>>, ok |-> TRUE]

\* dde.set_initial_value(Y): binds Y and starts the engine at
\* (Y.generator_cutoff_time, Y(Y.generator_cutoff_time))
set_initial_value(h) ==
    [t  |-> h.generator_cutoff_time,
     y  |-> AsState(ddeVar_call(h, h.generator_cutoff_time)),
     ok |-> TRUE]

\* the grid times from a to b, in either direction
Between(a, b) == {t \in Min(a, b)..Max(a, b) : (t - a) % TimeStep = 0}

\* the delays the right-hand side looks back by (examples: Y(t), Y(t - d))
Delays == {k * TimeStep : k \in 0..MaxDelay}

\* the times at which scipy.integrate.ode.integrate(t) may leave the engine:
\* the target when it succeeds, the start or a point short of the target when
\* it reports failure (a warning and a return code, no exception)
Stops(cur, tgt, ok) ==
    IF ok THEN {tgt} ELSE {cur} \cup (Between(cur, tgt) \ {tgt})

\* the state vectors of dimension n the engine may return: <<v>> for a scalar
\* problem, <<v, v + 1>> for a two-component one
States(n) == {[k \in 1..n |-> v + (k - 1)] : v \in 0..MaxVal}

(* ----------------------------- solve_dde ------------------------------- *)

NoRead == [t |-> 0, v |-> <<>>]

StrictlyIncreasing(q) == \A i \in 1..(Len(q) - 1) : q[i] < q[i + 1]

\* the output-time sequences solve_dde is called with: the empty one, the
\* strictly increasing ones, and those with one consecutive pair that does
\* not increase (solve_dde checks nothing about tt)
Inputs ==
    {q \in UNION {[1..n -> {k * TimeStep : k \in 0..MaxT}] : n \in 0..MaxLen} :
        Cardinality({i \in 1..(Len(q) - 1) : q[i] >= q[i + 1]}) <= 1}

\* the right-hand sides solve_dde is called with, by the number of
\* components of the derivative they return (examples/sine.py: one,
\* examples/lotka.py: two)
Funcs == {1, 2}

Init ==
    /\ tt \in Inputs
    /\ g \in Generators
    /\ func \in Funcs
    /\ pc = "start"
    /\ Y = NoY
    /\ ode = NoOde
    /\ results = <<>>
    /\ step_index = 0
    /\ target = 0
    /\ lastRead = NoRead
    /\ calls = <<>>

\* lines 139-150: build the integrator and the history, seed the results.
\* tt[0] on an empty tt raises IndexError.
Setup ==
    /\ pc = "start"
    /\ IF Len(tt) = 0
       THEN /\ pc' = "error"
            /\ UNCHANGED <<Y, ode, results>>
       ELSE /\ Y' = ddeVar_init(g, tt[1])
            /\ ode' = set_initial_value(ddeVar_init(g, tt[1]))
            /\ results' = <<generator(g, tt[1])>>
            /\ pc' = "loop"
    /\ UNCHANGED <<tt, g, func, step_index, target, lastRead, calls>>

\* the loop over time differences computed with tt[0] prepended: one zero
\* difference in front, one integrate call per output time
CallIntegrate_prepended ==
    /\ pc = "loop"
    /\ step_index < Len(tt)
    /\ target' = ode.t + (IF step_index = 0 THEN 0
                          ELSE tt[step_index + 1] - tt[step_index])
    /\ pc' = "engine"
    /\ UNCHANGED <<tt, g, func, Y, ode, results, step_index, lastRead, calls>>

\* lines 153-155: dt = t_diffs[step_index]; dde_.integrate(dde_.t + dt) is
\* entered and hands control to the engine (line 77)
CallIntegrate ==
    /\ pc = "loop"
    /\ step_index < Len(tt) - 1
    /\ target' = ode.t + (tt[step_index + 2] - tt[step_index + 1])
    /\ pc' = "engine"
    /\ UNCHANGED <<tt, g, func, Y, ode, results, step_index, lastRead, calls>>

\* a right-hand-side evaluation that also publishes the engine's provisional
\* point into the history while the engine is still running
EngineEval_publishing ==
    /\ pc = "engine"
    /\ \E s \in Between(ode.t, target), d \in Delays :
          /\ lastRead' = [t |-> s - d, v |-> ddeVar_call(Y, s - d)]
          /\ Y' = update(Y, s, ode.y)
    /\ pc' = IF func = Len(ode.y) THEN "engine" ELSE "error"
    /\ UNCHANGED <<tt, g, func, ode, results, step_index, target, calls>>

\* a history read past the last sample that stores the point it read
EngineEval_memoising ==
    /\ pc = "engine"
    /\ \E s \in Between(ode.t, target), d \in Delays :
          /\ lastRead' = [t |-> s - d, v |-> ddeVar_call(Y, s - d)]
          /\ Y' = IF s - d > Y.interpolator.x[Len(Y.interpolator.x)]
                  THEN update(Y, s - d, Y.interpolator.fill)
                  ELSE Y
    /\ pc' = IF func = Len(ode.y) THEN "engine" ELSE "error"
    /\ UNCHANGED <<tt, g, func, ode, results, step_index, target, calls>>

\* lines 69-70: the engine evaluates f2(t, y, args) = f(self.Y, t, *args) at a
\* sub-step time s; f reads the history at s - d (examples: Y(t), Y(t - d)).
\* The engine evaluates f any number of times before it returns. The engine
\* takes f's return value as an array of the dimension of y0: a return value
\* of another dimension raises out of integrate.
EngineEval ==
    /\ pc = "engine"
    /\ \E s \in Between(ode.t, target), d \in Delays :
          lastRead' = [t |-> s - d, v |-> ddeVar_call(Y, s - d)]
    /\ pc' = IF func = Len(ode.y) THEN "engine" ELSE "error"
    /\ UNCHANGED <<tt, g, func, Y, ode, results, step_index, target, calls>>

\* line 77: scipy.integrate.ode.integrate returns, leaving self.t and self.y
\* (of the dimension of y0); it returns only if f's values were accepted
EngineReturn ==
    /\ pc = "engine"
    /\ func = Len(ode.y)
    /\ \E ok \in BOOLEAN :
       \E t1 \in Stops(ode.t, target, ok), y1 \in States(Len(ode.y)) :
          ode' = [t |-> t1, y |-> y1, ok |-> ok]
    /\ pc' = "record"
    /\ lastRead' = NoRead
    /\ UNCHANGED <<tt, g, func, Y, results, step_index, target, calls>>

\* integrate recording the engine's point only when the engine succeeded
Record_onlyOnSuccess ==
    /\ pc = "record"
    /\ Y' = IF ode.ok THEN update(Y, ode.t, ode.y) ELSE Y
    /\ results' = Append(results, ode.y)
    /\ calls' = Append(calls, [target |-> target, t |-> ode.t, y |-> ode.y,
                               ok |-> ode.ok])
    /\ step_index' = step_index + 1
    /\ pc' = "loop"
    /\ UNCHANGED <<tt, g, func, ode, target, lastRead>>

\* lines 78-79 and 155: self.Y.update(self.t, self.y); return self.y, which
\* solve_dde appends to results
Record ==
    /\ pc = "record"
    /\ Y' = update(Y, ode.t, ode.y)
    /\ results' = Append(results, ode.y)
    /\ calls' = Append(calls, [target |-> target, t |-> ode.t, y |-> ode.y,
                               ok |-> ode.ok])
    /\ step_index' = step_index + 1
    /\ pc' = "loop"
    /\ UNCHANGED <<tt, g, func, ode, target, lastRead>>

\* lines 147, 155 and 157: what np.array makes of the result list. Its first
\* entry is generator(tt[0]) as the generator returned it, the later entries
\* are the engine's state arrays. With a generator returning a number and at
\* least one integrate call the list holds a number followed by one-element
\* arrays: np.array raises ValueError on such a list in numpy from 1.24 on,
\* and builds an array of the entries in earlier versions. Every other list
\* is rectangular and becomes an array.
np_array(gen, res) ==
    IF ndim(gen) = 1 /\ Len(res) >= 2 THEN {"done", "error"} ELSE {"done"}

\* line 157: return np.array(results)
Return ==
    /\ pc = "loop"
    /\ step_index >= Len(tt) - 1
    /\ pc' \in np_array(g, results)
    /\ UNCHANGED <<tt, g, func, Y, ode, results, step_index, target, lastRead, calls>>

Next ==
    \/ Setup
    \/ CallIntegrate
    \/ EngineEval
    \/ EngineReturn
    \/ Record
    \/ Return

Spec == Init /\ [][Next]_vars

(* ===================== properties of the solver ======================== *)

\* line 140 has run: the history exists (tt[0] on an empty tt raises before)
constructed == pc # "start" /\ Len(tt) >= 1

cutoff == tt[1]

sample_x == Y.interpolator.x

sample_y == Y.interpolator.y

\* the times the properties probe the history at: the grid times, and the
\* time of the seed sample one below the cutoff
Probe ==
    {k * TimeStep : k \in (0 - 1 - MaxDelay)..(MaxT * MaxLen + 1)}
        \cup {cutoff - 1}

\* the sample (t, s) is stored in the history
Stored(t, s) == \E j \in 1..Len(sample_x) : sample_x[j] = t /\ sample_y[j] = s

\* the history holds the seed and one sample per completed integrate call
SeedPlusCalls ==
    /\ Len(sample_x) = 2 + Len(calls)
    /\ Len(sample_y) = Len(sample_x)
    /\ Stored(cutoff - 1, generator(g, cutoff))
    /\ Stored(cutoff, generator(g, cutoff))
    /\ \A k \in 1..Len(calls) : Stored(calls[k].t, calls[k].y)

\* C1 (state part): while the engine of the k-th integrate call runs, and
\* until that call's update, k-1 calls have completed and the history holds
\* exactly the seed and their k-1 points; every right-hand-side read made in
\* the call is a read of that history
HistoryDuringEngine ==
    pc \in {"engine", "record"} =>
        /\ Len(calls) = step_index
        /\ SeedPlusCalls
        /\ (lastRead # NoRead => lastRead.v = ddeVar_call(Y, lastRead.t))

\* C1 (step part): the history changes only in the step that follows the
\* engine's return and ends the integrate call, where it gains the engine's
\* (t, y); while the engine runs it does not change
RecordAfterStep ==
    /\ (pc = "engine" => Y' = Y)
    /\ (pc # "start" /\ Y' # Y) =>
          /\ pc = "record" /\ pc' = "loop"
          /\ Len(Y'.interpolator.x) = Len(sample_x) + 1
          /\ \E j \in 1..(Len(sample_x) + 1) :
                Y'.interpolator.x[j] = ode.t /\ Y'.interpolator.y[j] = ode.y

\* C1: record-after-step ordering. The history update of an integrate call
\* happens after the engine has returned and before integrate returns, so the
\* engine's right-hand-side evaluations in the k-th call read a history made
\* of the seed and the points of calls 1..k-1, and the history is never
\* changed while the engine is evaluating.
C1_RecordAfterStep == []HistoryDuringEngine /\ [][RecordAfterStep]_vars

\* the engine of a second or later call has read a history point recorded by
\* an earlier call
C1_Witness ==
    /\ pc = "engine"
    /\ StrictlyIncreasing(tt)
    /\ step_index >= 1
    /\ calls[1].ok
    /\ calls[1].y # generator(g, cutoff)
    /\ lastRead # NoRead
    /\ lastRead.t = calls[1].t
    /\ lastRead.v = AsValue(calls[1].y)

\* C2: lock-step. Between operations of a solve the integrator's time and
\* state are the last sample time and the last sample state of the history.
C2_LockStep ==
    pc \in {"loop", "done"} =>
        /\ ode.t = sample_x[Len(sample_x)]
        /\ ode.y = sample_y[Len(sample_y)]

\* the loop of the solve has run to its end and np.array has raised on the
\* result list (an engine error leaves step_index below Len(tt) - 1)
ReturnRaised == pc = "error" /\ Len(tt) >= 1 /\ step_index = Len(tt) - 1

\* C3: result assembly. For every tt of length n >= 1 (here strictly
\* increasing) solve_dde returns one state per output time, in order:
\* generator(tt[0]) first, then the state returned by each integrate call;
\* a solve whose integrate calls have all returned does not end in an error.
C3_ResultAssembly ==
    /\ pc = "done" =>
          /\ Len(results) = Len(tt)
          /\ results[1] = generator(g, tt[1])
          /\ Len(calls) = Len(tt) - 1
          /\ \A i \in 1..(Len(tt) - 1) : results[i + 1] = calls[i].y
    /\ StrictlyIncreasing(tt) => ~ReturnRaised

\* some engine call of this solve has reported failure
Failed == (~ode.ok) \/ (\E k \in 1..Len(calls) : ~calls[k].ok)

\* the integrate calls that returned with the engine reporting success
Succeeded == {k \in 1..Len(calls) : calls[k].ok}

\* C4: step failure is fatal. Once the engine has reported that it could not
\* reach its target (here in a solve over increasing output times) the solve
\* is aborted: no further integrate call is
\* entered, the failing call records nothing, and no result is returned.
C4_StepFailureFatal ==
    (StrictlyIncreasing(tt) /\ Failed) =>
        /\ pc \notin {"engine", "loop", "done"}
        /\ Len(sample_x) = 2 + Cardinality(Succeeded)

\* C5: monotonic samples. The sample times of the history are strictly
\* increasing in every state of a solve (here a solve over increasing output
\* times).
C5_MonotonicSamples ==
    (constructed /\ StrictlyIncreasing(tt)) => StrictlyIncreasing(sample_x)

\* C6: record order violation. An update whose time is not greater than the
\* last sample time fails and leaves the samples as they were.
C6_RecordOrderViolation ==
    [][(pc = "record" /\ StrictlyIncreasing(tt) /\ ode.t <= sample_x[Len(sample_x)])
          => (pc' = "error" /\ Y' = Y)]_vars

\* C7: invalid output times fail fast. With an empty tt, or a tt holding a
\* consecutive pair that does not increase, solve_dde fails before any
\* integrate call and before anything is recorded; it returns nothing.
C7_InvalidInputFailsFast ==
    (Len(tt) = 0 \/ ~StrictlyIncreasing(tt)) =>
        /\ pc \notin {"engine", "record", "done"}
        /\ Len(calls) = 0
        /\ Len(sample_x) <= 2

\* C8: the generator region is authoritative. After any updates, the history
\* evaluated at a time t <= cutoff is generator(t), and so is every such read
\* the right-hand side makes.
C8_GeneratorRegion ==
    constructed =>
        /\ \A t \in Probe :
              t <= cutoff => ddeVar_call(Y, t) = AsValue(generator(g, t))
        /\ (lastRead # NoRead /\ lastRead.t <= cutoff) =>
              lastRead.v = AsValue(generator(g, lastRead.t))

\* a point has been recorded at the cutoff itself with a state other than the
\* generator's, and the right-hand side then reads the history at the cutoff
C8_Witness ==
    /\ pc = "engine"
    /\ StrictlyIncreasing(tt)
    /\ Len(calls) >= 1
    /\ calls[1].t = cutoff
    /\ calls[1].y # generator(g, cutoff)
    /\ lastRead # NoRead
    /\ lastRead.t = cutoff

\* the k-th integrate call recorded in order: its time is beyond the cutoff
\* and every earlier record, and every later record is beyond it
InOrderRecord(k) ==
    /\ calls[k].t > cutoff
    /\ \A j \in 1..Len(calls) : j < k => calls[j].t < calls[k].t
    /\ \A j \in 1..Len(calls) : j > k => calls[j].t > calls[k].t

\* C9: node reproduction. A point (t1, y1) recorded with t1 greater than the
\* previous last sample time is read back as y1 at t1, also after later
\* records at greater times.
C9_NodeReproduction ==
    pc \in {"loop", "done"} =>
        \A k \in 1..Len(calls) :
            InOrderRecord(k) => ddeVar_call(Y, calls[k].t) = AsValue(calls[k].y)

\* the state most recently recorded into the history
LastAccepted ==
    IF Len(calls) = 0 THEN generator(g, cutoff) ELSE calls[Len(calls)].y

\* C10: flat extrapolation past the frontier. Beyond the cutoff and the last
\* sample time the history evaluates to the most recently recorded state
\* (the generator's value at the cutoff before any record), which is the
\* last sample's state when the records came in order; a right-hand-side
\* read ahead of the last accepted point gets the engine's last accepted
\* state.
C10_FlatExtrapolation ==
    /\ pc \in {"loop", "engine", "done"} =>
          \A t \in Probe :
              (t > cutoff /\ t > sample_x[Len(sample_x)]) =>
                  /\ ddeVar_call(Y, t) = AsValue(LastAccepted)
                  /\ (\A k \in 1..Len(calls) : calls[k].t >= cutoff /\
                         (k > 1 => calls[k].t >= calls[k - 1].t))
                        => ddeVar_call(Y, t) = AsValue(sample_y[Len(sample_y)])
    /\ (pc = "engine" /\ lastRead # NoRead /\ lastRead.t > cutoff
           /\ lastRead.t > sample_x[Len(sample_x)]) =>
          lastRead.v = AsValue(ode.y)

\* in a second integrate call the right-hand side has read the history ahead
\* of the last sample, whose recorded state is neither the seed's nor the
\* linear continuation of the last two samples
C10_Witness ==
    /\ pc = "engine"
    /\ StrictlyIncreasing(tt)
    /\ Len(calls) = 1
    /\ calls[1].t > cutoff
    /\ calls[1].y # generator(g, cutoff)
    /\ lastRead # NoRead
    /\ lastRead.t > sample_x[Len(sample_x)]
    /\ lastRead.v = AsValue(calls[1].y)

\* C11: single-point request. With a tt of one element solve_dde returns
\* exactly [generator(tt[0])], enters no integrate call and leaves the
\* history at its seed.
C11_SinglePoint ==
    Len(tt) = 1 =>
        /\ pc \in {"start", "loop", "done"}
        /\ Len(calls) = 0
        /\ constructed => Y = ddeVar_init(g, tt[1])
        /\ pc = "done" => results = <<generator(g, tt[1])>>

\* a solve over a single output time has returned
C11_Witness ==
    /\ pc = "done"
    /\ Len(tt) = 1
    /\ Len(results) = 1

\* C12: idempotent read. A right-hand-side evaluation of the history changes
\* nothing in the history, and an evaluation at the time of the previous one,
\* with no update in between, returns the value the previous one returned.
C12_IdempotentRead ==
    [][(pc = "engine" /\ pc' \in {"engine", "error"}) =>
          /\ Y' = Y
          /\ (lastRead # NoRead /\ lastRead'.t = lastRead.t)
                => lastRead'.v = lastRead.v
          /\ lastRead'.v = ddeVar_call(Y', lastRead'.t)]_vars

\* the history has been read inside its sampled range, past the cutoff, after
\* a record
C12_Witness ==
    /\ pc = "engine"
    /\ StrictlyIncreasing(tt)
    /\ Len(calls) >= 1
    /\ lastRead # NoRead
    /\ lastRead.t > cutoff
    /\ lastRead.t <= sample_x[Len(sample_x)]
    /\ lastRead.v = ddeVar_call(Y, lastRead.t)

\* the right-hand side returns a derivative of another dimension than the
\* generator's states
Mismatch ==
    /\ Len(tt) >= 1
    /\ StrictlyIncreasing(tt)
    /\ func # Len(generator(g, tt[1]))

\* C13: dimension consistency. Every sample of the history has the dimension
\* of the generator's states, and a solve whose right-hand side produces
\* another dimension fails at set-up: no integrate call is entered.
C13_DimensionConsistency ==
    constructed =>
        /\ \A j \in 1..Len(sample_y) :
              Len(sample_y[j]) = Len(generator(g, cutoff))
        /\ Mismatch => pc \notin {"engine", "record"}

\* the earliest time an integrate call has recorded, the cutoff if none
RECURSIVE EarliestRecord(_)
EarliestRecord(k) ==
    IF k = 0 THEN cutoff ELSE Min(calls[k].t, EarliestRecord(k - 1))

\* C14 as stated: the seed is the point (cutoff, generator(cutoff)) twice at
\* the cutoff, and no sample is ever earlier than the cutoff.
C14_SeedAtCutoff ==
    constructed =>
        /\ Len(calls) = 0 =>
              /\ sample_x = <<cutoff, cutoff>>
              /\ sample_y = <<generator(g, cutoff), generator(g, cutoff)>>
        /\ \A j \in 1..Len(sample_x) : sample_x[j] >= cutoff

\* C14 (amended): right after construction the sample times are cutoff - 1
\* and cutoff, both samples carrying generator(cutoff); in every state the
\* earliest sample time is cutoff - 1, or an earlier time that an integrate
\* call recorded.
C14_SeedPlacement ==
    constructed =>
        /\ Len(calls) = 0 =>
              /\ sample_x = <<cutoff - 1, cutoff>>
              /\ sample_y = <<generator(g, cutoff), generator(g, cutoff)>>
        /\ sample_x[1] = Min(cutoff - 1, EarliestRecord(Len(calls)))
        /\ StrictlyIncreasing(tt) => sample_x[1] = cutoff - 1
        /\ \E j \in 1..Len(sample_x) :
              sample_x[j] = cutoff - 1 /\ sample_y[j] = generator(g, cutoff)

\* the history of a solve over increasing output times after two records:
\* the seed still holds its first place
C14_Witness ==
    /\ pc = "loop"
    /\ StrictlyIncreasing(tt)
    /\ Len(calls) = 2
    /\ Len(sample_x) = 4
    /\ sample_x[1] = cutoff - 1
    /\ sample_x[2] = cutoff

\* C15: advance targets. The target of the i-th integrate call (from 0) is
\* tt[i+1], whatever time the engine stopped at in earlier calls (here in a
\* solve over increasing output times).
C15_AdvanceTargets ==
    StrictlyIncreasing(tt) =>
        /\ \A k \in 1..Len(calls) : calls[k].target = tt[k + 1]
        /\ pc \in {"engine", "record"} => target = tt[step_index + 2]

\* C16: append-only history. Every update leaves the generator, the cutoff
\* and the stored samples as they are and in place, and puts the new pair at
\* the end.
C16_AppendOnly ==
    [][pc = "record" =>
          /\ Y'.generator = Y.generator
          /\ Y'.generator_cutoff_time = Y.generator_cutoff_time
          /\ Y'.interpolator.x = Append(Y.interpolator.x, ode.t)
          /\ Y'.interpolator.y = Append(Y.interpolator.y, ode.y)]_vars

\* C17: every integrate call adds exactly one sample, the engine's time and
\* state, whether or not the engine reached its target: after k calls the
\* history holds 2 + k samples, 2 + (n - 1) when a solve over n output times
\* ends, with a result or with np.array raising on the result list.
C17_OneSamplePerCall ==
    (pc \in {"loop", "done"} \/ ReturnRaised) =>
        /\ Len(calls) = step_index
        /\ Len(sample_x) = 2 + Len(calls)
        /\ Len(sample_y) = 2 + Len(calls)
        /\ \A k \in 1..Len(calls) : Stored(calls[k].t, calls[k].y)
        /\ (pc = "done" \/ ReturnRaised) => Len(sample_x) = 2 + (Len(tt) - 1)

\* a solve over three increasing output times has returned with four samples
\* although its first integrate call fell short of its target
C17_Witness ==
    /\ pc = "done"
    /\ StrictlyIncreasing(tt)
    /\ Len(tt) = 3
    /\ ~calls[1].ok
    /\ calls[1].t < calls[1].target
    /\ Len(sample_x) = 4

\* the engine time before the k-th integrate call
TimeBefore(k) == IF k = 1 THEN tt[1] ELSE calls[k - 1].t

\* the sum of the shortfalls target - t of the first k integrate calls
RECURSIVE Shortfall(_)
Shortfall(k) ==
    IF k = 0 THEN 0 ELSE (calls[k].target - calls[k].t) + Shortfall(k - 1)

\* C18: relative targets. The k-th target is the engine time before the call
\* plus tt[k+1] - tt[k], so it misses tt[k+1] by the shortfall accumulated in
\* the earlier calls; if every call reached its target, the engine time and
\* the last sample time of the history are both tt[k] after the k-th call.
C18_RelativeTargets ==
    /\ \A k \in 1..Len(calls) :
          /\ calls[k].target = TimeBefore(k) + (tt[k + 1] - tt[k])
          /\ calls[k].target = tt[k + 1] - Shortfall(k - 1)
    /\ (pc \in {"loop", "done"} /\ \A k \in 1..Len(calls) : calls[k].t = calls[k].target) =>
          /\ ode.t = tt[Len(calls) + 1]
          /\ sample_x[Len(sample_x)] = tt[Len(calls) + 1]

====
